---- MODULE Spec2Model ----
(***************************************************************************)
(* The reconciliation engine of tas-annual-pass-reconcile                  *)
(* (src/models/reconciliation.py): ReconciliationEngine.reconcile and the  *)
(* four steps it runs over a table of toll transactions.                   *)
(*                                                                         *)
(* A table (pandas DataFrame) is a sequence of rows; a row is a record     *)
(* whose fields are the columns, "idx" being the row's index label.  A     *)
(* timestamp is a number of seconds (day * 86400 + second of day), NaT the *)
(* null timestamp; a date is a day number, NoDate the null date (None).    *)
(***************************************************************************)
EXTENDS Integers, Sequences, FiniteSets, TLC

VARIABLES
    entry,          \* the function the caller invoked
    pc,             \* position inside it
    input,          \* the table the caller passed
    df,             \* the local table `df` of the running function
    groups,         \* groupby: keys of the groups still to be applied
    applied,        \* groupby.apply: the frames calc_tripcount returned so far
    group,          \* calc_tripcount: the sorted group
    i,              \* calc_tripcount: loop index (1-based)
    window_start,   \* calc_tripcount
    window_end,     \* calc_tripcount
    trip_count,     \* calc_tripcount
    trip_counts,    \* calc_tripcount
    summary,        \* the daily summary returned by reconcile
    raised,         \* the exception the call raised, NoneStr while there is none
    original,       \* the caller's table as it was when the call was made
    results,        \* what the earlier calls on this table returned or raised
    stable_sort,    \* whether this build's argsort(kind="quicksort") keeps ties in order
    save_to_db,     \* ReconcilerController.save_to_db
    run_id,         \* ReconcilerController.run_id, NoId before run_pipeline sets it
    uuid,           \* the UUIDs that uuid.uuid4() has issued so far are 1..uuid
    connection,     \* ResultStorage.connection, NoneStr while there is none
    connections,    \* the connections that were opened and are not closed
    db              \* the records committed to the MySQL tables, in order

vars == <<entry, pc, input, df, groups, applied, group, i, window_start,
          window_end, trip_count, trip_counts, summary, raised, original,
          results, stable_sort, save_to_db, run_id, uuid, connection,
          connections, db>>

storevars == <<save_to_db, run_id, uuid, connection, connections, db>>

callvars == <<raised, original, results, stable_sort>>

loopvars == <<group, i, window_start, window_end, trip_count, trip_counts>>

----------------------------------------------------------------------------
\* Bounds of the model
MaxRows == 3        \* rows of a table handed to reconcile
MaxTripRows == 4    \* rows of a table handed to calculate_trip_count
MaxCallRows == 2    \* rows of a table a caller passes unconverted or incomplete
MaxCalls == 2       \* calls of reconcile a caller makes with one table object
MaxPipelineRows == 3    \* rows of a table handed to the controllers
MaxEdgeRows == 3    \* rows of a table that may be empty or hold null keys
MaxSourceRows == 3  \* rows of a table given to all three implementations

\* Program constants
WindowHours == 24   \* pd.Timedelta(hours=24)
CutoffHour == 8     \* pd.Timestamp("08:00").time()
NapMaxTrips == 2    \* df["TripCount"] <= 2

\* Null values
NaT == -1           \* pandas NaT: pd.isna(ts)
None == -2          \* Python None (window_start = None, window_end = None)
NoDate == -3        \* a None cell of the ReportDate column
NoneStr == "None"   \* a null cell of a string column
NoId == 0           \* run_id = None

\* A cell of "Reader Read Time" that is still a string: the string that
\* pd.to_datetime parses to the timestamp t is StrBase - t, and Unparseable is
\* a string it cannot parse
StrBase == -1000
Unparseable == -4
StrTime(t) == StrBase - t
IsStr(c) == c <= StrBase

SecondsPerHour == 60 * 60
SecondsPerDay == 24 * SecondsPerHour

At(day, h, m, s) == day * SecondsPerDay + h * SecondsPerHour + m * 60 + s

----------------------------------------------------------------------------
\* Values the input tables are drawn from

\* Python's order of the strings used as cell values
StrOrder == <<"142001", "220001", "999999", "BPPTPL", "GHOTI", "Ghoti", "IHPL",
              "MH01AB1234", "MH02CD5678", "Raipur", "Unknown">>

Ord(s) == CHOOSE k \in 1..Len(StrOrder) : StrOrder[k] = s

Row(plaza, vehicle, t, project, name) ==
    [PlazaID |-> plaza, Vehicle |-> vehicle, Time |-> t,
     ProjectName |-> project, PlazaName |-> name]

\* Rows of the tables handed to reconcile: two vehicles at plaza 220001 reading
\* just before the 08:00 cutoff, at the cutoff, or with no timestamp, their
\* project resolved or null; a read 24h + 1s after the 08:00:00 read; and reads
\* at a plaza of another project, its plaza name resolved or null
ReconcileRows ==
    {Row("220001", v, t, pr, "Raipur") :
        v \in {"MH01AB1234", "MH02CD5678"},
        t \in {At(2, 7, 59, 59), At(2, 8, 0, 0), NaT},
        pr \in {"BPPTPL", NoneStr}}
    \cup {Row("220001", "MH01AB1234", At(3, 8, 0, 1), "BPPTPL", "Raipur")}
    \cup {Row("142001", "MH01AB1234", At(2, 8, 0, 0), "GHOTI", n) : n \in {"Ghoti", NoneStr}}

\* Rows of the tables handed to calculate_trip_count: one vehicle with the reads
\* of test_trip_count_logic (T, T+4h, T+8h, T+25h), reads exactly 24h and
\* 24h + 1s after T and a read with no timestamp; and a second vehicle
TripRows ==
    {Row("220001", "MH01AB1234", t, "BPPTPL", "Raipur") :
        t \in {At(1, 10, 0, 0), At(1, 14, 0, 0), At(1, 18, 0, 0),
               At(2, 10, 0, 0), At(2, 10, 0, 1), At(2, 11, 0, 0), NaT}}
    \cup {Row("220001", "MH02CD5678", t, "BPPTPL", "Raipur") :
        t \in {At(1, 14, 0, 0), At(2, 14, 0, 1)}}

\* the rows of the tables a caller passes to reconcile whose timestamp column
\* was not converted yet or which lack columns: two reads of one vehicle at
\* the same second (the second with no project), a read given as a string, a
\* string that is no timestamp, a missing timestamp, and a read given as a
\* string at another plaza
CallRows ==
    {Row("220001", "MH01AB1234", At(2, 8, 0, 0), "BPPTPL", "Raipur"),
     Row("220001", "MH01AB1234", At(2, 8, 0, 0), NoneStr, "Raipur"),
     Row("220001", "MH01AB1234", StrTime(At(2, 7, 59, 59)), "BPPTPL", "Raipur"),
     Row("220001", "MH01AB1234", Unparseable, "BPPTPL", "Raipur"),
     Row("220001", "MH01AB1234", NaT, "BPPTPL", "Raipur"),
     Row("142001", "MH01AB1234", StrTime(At(3, 8, 0, 1)), "GHOTI", "Ghoti")}

\* the sets of columns such a table may lack
MissingColumns ==
    {{}, {"PlazaID"}, {"Vehicle"}, {"Time"}, {"PlazaID", "Time"},
     {"ProjectName"}, {"PlazaName"}, {"ProjectName", "PlazaName"}}

\* the rows of the tables handed to the controllers, which have no metadata
\* columns yet: reads at a plaza of the configuration and at plaza 999999,
\* which no bank of the configuration has
PipelineRows ==
    {[PlazaID |-> "220001", Vehicle |-> "MH01AB1234", Time |-> At(2, 8, 0, 0)],
     [PlazaID |-> "999999", Vehicle |-> "MH01AB1234", Time |-> At(2, 8, 0, 0)],
     [PlazaID |-> "999999", Vehicle |-> "MH01AB1234", Time |-> At(2, 7, 59, 59)],
     [PlazaID |-> "142001", Vehicle |-> "MH02CD5678", Time |-> NaT]}

\* the rows of the tables that may be empty or hold nulls in the key columns:
\* two reads of one vehicle, a read with no plaza (and so no metadata), a read
\* with no vehicle and a read with no timestamp
EdgeRows ==
    {Row("220001", "MH01AB1234", At(2, 7, 59, 59), "BPPTPL", "Raipur"),
     Row("220001", "MH01AB1234", At(2, 8, 0, 0), "BPPTPL", "Raipur"),
     Row(NoneStr, "MH01AB1234", At(2, 8, 0, 0), NoneStr, NoneStr),
     Row("220001", NoneStr, At(2, 8, 0, 0), "BPPTPL", "Raipur"),
     Row("220001", "MH01AB1234", NaT, "BPPTPL", "Raipur")}

\* the rows of the tables given to all three implementations: reads at plazas
\* that resolve_plaza knows, with the names it gives them, and with a timestamp
SourceRows ==
    {Row("220001", "MH01AB1234", At(2, 7, 59, 59), "BPPTPL", "Raipur"),
     Row("220001", "MH01AB1234", At(2, 8, 0, 0), "BPPTPL", "Raipur"),
     Row("220001", "MH01AB1234", At(3, 8, 0, 1), "BPPTPL", "Raipur"),
     Row("220001", "MH02CD5678", At(2, 8, 0, 0), "BPPTPL", "Raipur"),
     Row("142001", "MH01AB1234", At(2, 8, 0, 0), "IHPL", "Ghoti")}

\* add (or overwrite) a column value of a row
WithColumn(r, col, v) == [c \in DOMAIN r \cup {col} |-> IF c = col THEN v ELSE r[c]]

\* a fresh table: the rows with the default RangeIndex
Frame(rows) == [k \in 1..Len(rows) |-> WithColumn(rows[k], "idx", k)]

Tables(R, n) == UNION {[1..k -> R] : k \in 1..n}

----------------------------------------------------------------------------
\* Null-aware comparisons

\* a > b on timestamps: every comparison with NaT is False
Gt(a, b) == a # NaT /\ b # NaT /\ a > b

\* t + pd.Timedelta(seconds): NaT stays NaT
AddSeconds(t, secs) == IF t = NaT THEN NaT ELSE t + secs

\* ascending order of a timestamp column, NaT last (na_position="last")
TimeBefore(a, b) == a # NaT /\ (b = NaT \/ a < b)

\* ascending order of a string column, null last
StrBefore(a, b) == a # NoneStr /\ (b = NoneStr \/ Ord(a) < Ord(b))

\* ascending order of a date column, None last
DateBefore(a, b) == a # NoDate /\ (b = NoDate \/ a < b)

----------------------------------------------------------------------------
\* calc_tripcount: group.sort_values("Reader Read Time"), of the default
\* kind="quicksort": ascending, NaT last; rows with equal timestamps keep the
\* order they had in a build whose sort is stable and swap otherwise
RECURSIVE InsertByTime(_, _)
InsertByTime(sorted, r) ==
    IF sorted = <<>> THEN <<r>>
    ELSE IF \/ TimeBefore(r.Time, Head(sorted).Time)
            \/ ~stable_sort /\ r.Time = Head(sorted).Time /\ r.Time # NaT
         THEN <<r>> \o sorted
         ELSE <<Head(sorted)>> \o InsertByTime(Tail(sorted), r)

RECURSIVE SortByTime(_)
SortByTime(rows) ==
    IF rows = <<>> THEN <<>>
    ELSE InsertByTime(SortByTime(SubSeq(rows, 1, Len(rows) - 1)), rows[Len(rows)])

\* reconcile: df.sort_values(["PlazaID", "Vehicle Reg. No.", "Reader Read Time"])
SortKeyBefore(a, b) ==
    \/ StrBefore(a.PlazaID, b.PlazaID)
    \/ /\ a.PlazaID = b.PlazaID
       /\ \/ StrBefore(a.Vehicle, b.Vehicle)
          \/ a.Vehicle = b.Vehicle /\ TimeBefore(a.Time, b.Time)

RECURSIVE InsertByKey(_, _)
InsertByKey(sorted, r) ==
    IF sorted = <<>> THEN <<r>>
    ELSE IF SortKeyBefore(r, Head(sorted)) THEN <<r>> \o sorted
    ELSE <<Head(sorted)>> \o InsertByKey(Tail(sorted), r)

RECURSIVE SortValues(_)
SortValues(rows) ==
    IF rows = <<>> THEN <<>>
    ELSE InsertByKey(SortValues(SubSeq(rows, 1, Len(rows) - 1)), rows[Len(rows)])

\* reset_index(drop=True): the rows renumbered 1..n
ResetIndex(rows) == [k \in 1..Len(rows) |-> WithColumn(rows[k], "idx", k)]

\* groupby(["PlazaID", "Vehicle Reg. No."], sort=False): the group keys in order
\* of first appearance; rows with a null key belong to no group (dropna=True)
\* the key a groupby("PlazaID") alone would give (every vehicle in one group)
GroupKeyOfPlaza(r) == <<r.PlazaID, "*">>

GroupKeyOf(r) == <<r.PlazaID, r.Vehicle>>

HasNullGroupKey(r) == r.PlazaID = NoneStr \/ r.Vehicle = NoneStr

RECURSIVE GroupKeys(_)
GroupKeys(rows) ==
    IF rows = <<>> THEN <<>>
    ELSE LET rest == GroupKeys(SubSeq(rows, 1, Len(rows) - 1))
             r == rows[Len(rows)]
         IN  IF HasNullGroupKey(r) \/ \E k \in 1..Len(rest) : rest[k] = GroupKeyOf(r)
             THEN rest
             ELSE Append(rest, GroupKeyOf(r))

GroupRows(rows, key) == SelectSeq(rows, LAMBDA r : GroupKeyOf(r) = key)

RECURSIVE Concat(_)
Concat(frames) == IF frames = <<>> THEN <<>> ELSE Head(frames) \o Concat(Tail(frames))

\* a frame calc_tripcount returned is indexed like the group it was given
IndexedLike(frame) == \A k \in 1..Len(frame) - 1 : frame[k].idx < frame[k + 1].idx

RECURSIVE InsertByIdx(_, _)
InsertByIdx(sorted, r) ==
    IF sorted = <<>> THEN <<r>>
    ELSE IF r.idx < Head(sorted).idx THEN <<r>> \o sorted
    ELSE <<Head(sorted)>> \o InsertByIdx(Tail(sorted), r)

RECURSIVE Reindex(_)
Reindex(rows) ==
    IF rows = <<>> THEN <<>>
    ELSE InsertByIdx(Reindex(SubSeq(rows, 1, Len(rows) - 1)), rows[Len(rows)])

\* groupby(...).apply: the returned frames concatenated in group order when
\* some frame was reordered, put back in the original row order otherwise
ApplyResult(frames) ==
    IF \A k \in 1..Len(frames) : IndexedLike(frames[k])
    THEN Reindex(Concat(frames))
    ELSE Concat(frames)

----------------------------------------------------------------------------
\* calc_tripcount, the loop body

\* line 47: window_end = window_start + pd.Timedelta(hours=24)
WindowEndHalfDay(ws) == AddSeconds(ws, 12 * SecondsPerHour)
WindowEndExclusive(ws) == AddSeconds(ws, WindowHours * SecondsPerHour - 1)
WindowEnd(ws) == AddSeconds(ws, WindowHours * SecondsPerHour)

\* lines 43-51: the window and the running counter after the read at time t
LoopBodyGe(ws, we, tc, t) ==
    IF ws = None \/ (t # NaT /\ we # NaT /\ t >= we)
    THEN [window_start |-> t, window_end |-> WindowEnd(t), trip_count |-> 1]
    ELSE [window_start |-> ws, window_end |-> we, trip_count |-> tc + 1]
LoopBodyNoReset(ws, we, tc, t) ==
    IF ws = None \/ Gt(t, we)
    THEN [window_start |-> t, window_end |-> WindowEnd(t), trip_count |-> tc + 1]
    ELSE [window_start |-> ws, window_end |-> we, trip_count |-> tc + 1]
LoopBodySliding(ws, we, tc, t) ==
    IF ws = None \/ Gt(t, we)
    THEN [window_start |-> t, window_end |-> WindowEnd(t), trip_count |-> 1]
    ELSE [window_start |-> t, window_end |-> WindowEnd(t), trip_count |-> tc + 1]
LoopBody(ws, we, tc, t) ==
    IF ws = None \/ Gt(t, we)
    THEN [window_start |-> t, window_end |-> WindowEnd(t), trip_count |-> 1]
    ELSE [window_start |-> ws, window_end |-> we, trip_count |-> tc + 1]

----------------------------------------------------------------------------
\* calculate_report_date

DateOf(ts) == ts \div SecondsPerDay          \* ts.date()
TimeOfDay(ts) == ts % SecondsPerDay          \* ts.time()
CutoffTime == CutoffHour * SecondsPerHour    \* pd.Timestamp("08:00").time()

\* lines 83-90
ReportDateLe(ts) ==
    IF ts = NaT THEN NoDate
    ELSE IF TimeOfDay(ts) <= CutoffTime THEN DateOf(ts - SecondsPerDay)
    ELSE DateOf(ts)
report_date(ts) ==
    IF ts = NaT THEN NoDate
    ELSE IF TimeOfDay(ts) < CutoffTime THEN DateOf(ts - SecondsPerDay)
    ELSE DateOf(ts)

\* determine_nap_qualification, line 110: df["TripCount"] <= 2
NapAtMostThree(tc) == tc <= NapMaxTrips + 1
NapLt(tc) == tc < NapMaxTrips
IsNap(tc) == tc <= NapMaxTrips

----------------------------------------------------------------------------
\* generate_daily_summary

SummaryKey(r) == <<r.ProjectName, r.PlazaID, r.PlazaName, r.ReportDate>>

\* groupby drops the rows with a null value in a key column (dropna=True)
HasNullDate(r) == r.ReportDate = NoDate
HasNullSummaryKey(r) ==
    \/ r.ProjectName = NoneStr
    \/ r.PlazaID = NoneStr
    \/ r.PlazaName = NoneStr
    \/ r.ReportDate = NoDate

SummaryKeysKeepNull(rows) == {SummaryKey(rows[k]) : k \in DOMAIN rows}
SummaryKeysUnknown(rows) ==
    {<<IF SummaryKey(rows[k])[1] = NoneStr THEN "Unknown" ELSE SummaryKey(rows[k])[1],
       SummaryKey(rows[k])[2], SummaryKey(rows[k])[3], SummaryKey(rows[k])[4]>> :
        k \in {j \in DOMAIN rows :
                rows[j].PlazaName # NoneStr /\ rows[j].ReportDate # NoDate}}
SummaryKeys(rows) ==
    {SummaryKey(rows[k]) : k \in {j \in DOMAIN rows : ~HasNullSummaryKey(rows[j])}}

\* ATP=("Reader Read Time", "count"): the non-null timestamps of the group
AtpOfNap(rows, key) ==
    Cardinality({k \in DOMAIN rows :
        SummaryKey(rows[k]) = key /\ rows[k].Time # NaT /\ ~rows[k].IsQualifiedNAP})
AtpOf(rows, key) ==
    Cardinality({k \in DOMAIN rows : SummaryKey(rows[k]) = key /\ rows[k].Time # NaT})

\* NAP=("IsQualifiedNAP", "sum"): the True cells of the group
NapOf(rows, key) ==
    Cardinality({k \in DOMAIN rows : SummaryKey(rows[k]) = key /\ rows[k].IsQualifiedNAP})

SummaryRow(rows, key) ==
    [ProjectName |-> key[1], PlazaID |-> key[2], PlazaName |-> key[3],
     ReportDate |-> key[4], ATP |-> AtpOf(rows, key), NAP |-> NapOf(rows, key)]

\* groupby(sort=True): the groups in ascending order of their four keys
GroupKeyBefore(a, b) ==
    \/ StrBefore(a[1], b[1])
    \/ /\ a[1] = b[1]
       /\ \/ StrBefore(a[2], b[2])
          \/ /\ a[2] = b[2]
             /\ \/ StrBefore(a[3], b[3])
                \/ a[3] = b[3] /\ DateBefore(a[4], b[4])

RECURSIVE SortedKeys(_)
SortedKeys(S) ==
    IF S = {} THEN <<>>
    ELSE LET m == CHOOSE x \in S : \A y \in S \ {x} : GroupKeyBefore(x, y)
         IN  <<m>> \o SortedKeys(S \ {m})

\* the order .sort_values(["PlazaID", "ProjectName", "ReportDate"]) would give
SummaryBeforePlazaFirst(a, b) ==
    \/ StrBefore(a.PlazaID, b.PlazaID)
    \/ /\ a.PlazaID = b.PlazaID
       /\ \/ StrBefore(a.ProjectName, b.ProjectName)
          \/ a.ProjectName = b.ProjectName /\ DateBefore(a.ReportDate, b.ReportDate)

\* .sort_values(["ProjectName", "PlazaID", "ReportDate"])
SummaryBefore(a, b) ==
    \/ StrBefore(a.ProjectName, b.ProjectName)
    \/ /\ a.ProjectName = b.ProjectName
       /\ \/ StrBefore(a.PlazaID, b.PlazaID)
          \/ a.PlazaID = b.PlazaID /\ DateBefore(a.ReportDate, b.ReportDate)

RECURSIVE InsertSummary(_, _)
InsertSummary(sorted, r) ==
    IF sorted = <<>> THEN <<r>>
    ELSE IF SummaryBefore(r, Head(sorted)) THEN <<r>> \o sorted
    ELSE <<Head(sorted)>> \o InsertSummary(Tail(sorted), r)

RECURSIVE SortSummary(_)
SortSummary(rows) ==
    IF rows = <<>> THEN <<>>
    ELSE InsertSummary(SortSummary(SubSeq(rows, 1, Len(rows) - 1)), rows[Len(rows)])

\* lines 124-132
DailySummary(rows) ==
    LET keys == SortedKeys(SummaryKeys(rows))
    IN  SortSummary([k \in 1..Len(keys) |-> SummaryRow(rows, keys[k])])

----------------------------------------------------------------------------
\* The controllers: plaza metadata

\* config/plaza_config.py, BANK_PLAZA_MAP
BANK_PLAZA_MAP ==
    [IDFC |->
        ("220001" :> [bank |-> "IDFC", plaza |-> "Raipur", project |-> "BPPTPL"])
        @@ ("220002" :> [bank |-> "IDFC", plaza |-> "Indranagar", project |-> "BPPTPL"])
        @@ ("220003" :> [bank |-> "IDFC", plaza |-> "Birami", project |-> "BPPTPL"])
        @@ ("220004" :> [bank |-> "IDFC", plaza |-> "Uthman", project |-> "BPPTPL"])
        @@ ("142001" :> [bank |-> "IDFC", plaza |-> "Ghoti", project |-> "GHOTI"]),
     ICICI |->
        ("142002" :> [bank |-> "ICICI", plaza |-> "Plaza Name", project |-> "ProjectName"])]

\* the None that get_plaza_info returns for a plaza it does not find
NoInfo == [bank |-> NoneStr, plaza |-> NoneStr, project |-> NoneStr]

\* get_plaza_info(plaza_id, bank): within the bank if one is given, else across
\* all banks
get_plaza_info(plaza_id, bank) ==
    IF bank # NoneStr
    THEN IF bank \in DOMAIN BANK_PLAZA_MAP /\ plaza_id \in DOMAIN BANK_PLAZA_MAP[bank]
         THEN BANK_PLAZA_MAP[bank][plaza_id]
         ELSE NoInfo
    ELSE IF \E b \in DOMAIN BANK_PLAZA_MAP : plaza_id \in DOMAIN BANK_PLAZA_MAP[b]
         THEN BANK_PLAZA_MAP[CHOOSE b \in DOMAIN BANK_PLAZA_MAP :
                                plaza_id \in DOMAIN BANK_PLAZA_MAP[b]][plaza_id]
         ELSE NoInfo

\* the banks and projects a run's metadata may name (NoneStr: the key is absent)
MetadataBanks == {NoneStr, "IDFC", "ICICI"}
MetadataProjects == {NoneStr, "BPPTPL"}

\* metadata.get('project', 'Unknown')
ProjectOf(project) == IF project = NoneStr THEN "Unknown" ELSE project

\* ReconcilerController._add_plaza_metadata: PlazaName and ProjectName from
\* the plaza's entry, and for a plaza that is not found 'Unknown' and the
\* project of the run
ControllerMetadata(tbl, bank, project) ==
    [k \in 1..Len(tbl) |->
        LET info == get_plaza_info(tbl[k].PlazaID, bank)
        IN  IF info # NoInfo
            THEN WithColumn(WithColumn(tbl[k], "PlazaName", info.plaza),
                            "ProjectName", info.project)
            ELSE WithColumn(WithColumn(tbl[k], "PlazaName", "Unknown"),
                            "ProjectName", ProjectOf(project))]

\* DataConsolidator._add_plaza_metadata: Bank, PlazaName and ProjectName from
\* the plaza's entry, and for a plaza that is not found bank or 'Unknown',
\* 'Unknown' and 'Unknown'
ConsolidatorMetadata(tbl, bank) ==
    [k \in 1..Len(tbl) |->
        LET info == get_plaza_info(tbl[k].PlazaID, bank)
        IN  IF info # NoInfo
            THEN WithColumn(WithColumn(WithColumn(tbl[k], "Bank", info.bank),
                            "PlazaName", info.plaza), "ProjectName", info.project)
            ELSE WithColumn(WithColumn(WithColumn(tbl[k], "Bank",
                                IF bank # NoneStr THEN bank ELSE "Unknown"),
                            "PlazaName", "Unknown"), "ProjectName", "Unknown")]

\* DataConsolidator._add_source_month: strftime('%b-%y'); every timestamp of
\* the tables lies in one month
SourceMonth(t) == IF t = NaT THEN NoneStr ELSE "Jan-26"

\* DataConsolidator._ensure_required_columns: of its seven columns the tables
\* lack 'Tag ID' only at this point
EnsureRequiredColumns(tbl) ==
    [k \in 1..Len(tbl) |->
        IF "Tag ID" \in DOMAIN tbl[k] THEN tbl[k] ELSE WithColumn(tbl[k], "Tag ID", "Unknown")]

----------------------------------------------------------------------------
\* The two run_reconciler functions (annual_pass_reconciler.py and app.py),
\* which carry their own copies of the reconciliation steps

\* df["ProjectName"].unique(): the values in order of first appearance
RECURSIVE Unique(_)
Unique(values) ==
    IF values = <<>> THEN <<>>
    ELSE LET rest == Unique(SubSeq(values, 1, Len(values) - 1))
             v == values[Len(values)]
         IN  IF \E k \in 1..Len(rest) : rest[k] = v THEN rest ELSE Append(rest, v)

\* annual_pass_reconciler.py, lines 553-560: one iteration of the loop
DbLoopBody(ws, we, tc, t) ==
    IF ws = None \/ Gt(t, we)
    THEN [window_start |-> t, window_end |-> AddSeconds(t, 24 * SecondsPerHour),
          trip_count |-> 1]
    ELSE [window_start |-> ws, window_end |-> we, trip_count |-> tc + 1]

\* annual_pass_reconciler.py, lines 545-560: the loop over the times
RECURSIVE DbTripCounts(_, _, _, _)
DbTripCounts(times, ws, we, tc) ==
    IF times = <<>> THEN <<>>
    ELSE LET after == DbLoopBody(ws, we, tc, Head(times))
         IN  <<after.trip_count>>
             \o DbTripCounts(Tail(times), after.window_start, after.window_end,
                             after.trip_count)

\* annual_pass_reconciler.py, lines 543-563: calc_tripcount(group)
DbCalcTripcount(rows) ==
    LET sorted == SortByTime(rows)
        counts == DbTripCounts([k \in 1..Len(sorted) |-> sorted[k].Time], None, None, 0)
    IN  [k \in 1..Len(sorted) |-> WithColumn(sorted[k], "TripCount", counts[k])]

\* a report date that puts the read at 08:00:00 on the previous day
DbReportDateLe(ts) ==
    IF ts = NaT THEN NoDate
    ELSE IF ts % SecondsPerDay <= 8 * SecondsPerHour
         THEN (ts - SecondsPerDay) \div SecondsPerDay
         ELSE ts \div SecondsPerDay

\* annual_pass_reconciler.py, lines 571-574: report_date(ts)
DbReportDate(ts) ==
    IF ts = NaT THEN NoDate
    ELSE IF ts % SecondsPerDay < 8 * SecondsPerHour
         THEN (ts - SecondsPerDay) \div SecondsPerDay
         ELSE ts \div SecondsPerDay

\* annual_pass_reconciler.py, lines 538-585: the steps for one project
DbProject(df0, project) ==
    LET pdf == ResetIndex(SortValues(SelectSeq(df0, LAMBDA r : r.ProjectName = project)))
        keys == GroupKeys(pdf)
        counted == ResetIndex(ApplyResult(
                       [g \in 1..Len(keys) |-> DbCalcTripcount(GroupRows(pdf, keys[g]))]))
        dated == [k \in 1..Len(counted) |->
                     WithColumn(counted[k], "ReportDate", DbReportDate(counted[k].Time))]
        flagged == [k \in 1..Len(dated) |->
                       WithColumn(dated[k], "IsQualifiedNAP", dated[k].TripCount <= 2)]
    IN  [project |-> project, transactions |-> flagged, summary |-> DailySummary(flagged)]

\* annual_pass_reconciler.py, run_reconciler(df, ...): what it saves, project by
\* project; the None project is skipped
RunReconcilerDb(df0) ==
    IF df0 = <<>> THEN <<>>
    ELSE LET projects == SelectSeq(Unique([k \in 1..Len(df0) |-> df0[k].ProjectName]),
                                   LAMBDA x : x # NoneStr)
         IN  [n \in 1..Len(projects) |-> DbProject(df0, projects[n])]

\* app.py, lines 782-803: BANK_PLAZA_MAP of run_reconciler, plaza ID to
\* (plaza name, project name)
AppBankPlazaMap ==
    [IDFC |->
        ("142001" :> <<"Ghoti", "IHPL">>) @@ ("142002" :> <<"Arjunali", "IHPL">>)
        @@ ("220001" :> <<"Raipur", "BPPTPL">>) @@ ("220002" :> <<"Indranagar", "BPPTPL">>)
        @@ ("220003" :> <<"Birami", "BPPTPL">>) @@ ("220004" :> <<"Uthman", "BPPTPL">>)
        @@ ("235001" :> <<"Mandawada", "SUTPL">>) @@ ("235002" :> <<"Negadiya", "SUTPL">>)
        @@ ("243000" :> <<"Rupakheda", "BRTPL">>) @@ ("243001" :> <<"Mujras", "BRTPL">>)
        @@ ("073001" :> <<"Bollapalli", "SEL">>) @@ ("073002" :> <<"Tangutur", "SEL">>)
        @@ ("073003" :> <<"Musunur", "SEL">>),
     ICICI |->
        ("540030" :> <<"Ladgaon", "CSJTPL">>) @@ ("540032" :> <<"Nagewadi", "CSJTPL">>)
        @@ ("120001" :> <<"Shanthigrama", "DHTPL">>) @@ ("120002" :> <<"Kadabahalli", "DHTPL">>)
        @@ ("139001" :> <<"Shirpur", "DPTL">>) @@ ("139002" :> <<"Songir", "DPTL">>)
        @@ ("167001" :> <<"Vaniyambadi", "KWTPL">>) @@ ("167002" :> <<"Pallikonda", "KWTPL">>)
        @@ ("169001" :> <<"Palayam", "KTTRL">>) @@ ("234002" :> <<"Chagalamarri", "REPL">>)
        @@ ("352001" :> <<"Nannur", "REPL">>) @@ ("352013" :> <<"Chapirevula", "REPL">>)
        @@ ("352065" :> <<"Patimeedapalli", "REPL">>) @@ ("045001" :> <<"Gudur", "HYTPL">>)
        @@ ("046001" :> <<"Kasaba", "BHTPL">>) @@ ("046002" :> <<"Nagarhalla", "BHTPL">>)
        @@ ("079001" :> <<"Shakapur", "WATL">>)]

\* app.py, lines 805-815: resolve_plaza, (bank, plaza name, project name) or
\* three None (the IDs of the tables are in their six-digit form already)
AppResolvePlaza(plaza_id) ==
    IF \E b \in DOMAIN AppBankPlazaMap : plaza_id \in DOMAIN AppBankPlazaMap[b]
    THEN LET bank == CHOOSE b \in DOMAIN AppBankPlazaMap :
                         plaza_id \in DOMAIN AppBankPlazaMap[b]
         IN  <<bank, AppBankPlazaMap[bank][plaza_id][1], AppBankPlazaMap[bank][plaza_id][2]>>
    ELSE <<NoneStr, NoneStr, NoneStr>>

\* app.py, run_slicer and run_merger: the MERGED directory for a set of
\* transactions has one folder per project and in it one file per plaza, sorted
\* by time, whose rows are PlazaID, VRN and TransactionDateTime as text
MergedFile(tbl, plaza) ==
    LET rows == SortByTime(SelectSeq(tbl, LAMBDA r : r.PlazaID = plaza))
    IN  [k \in 1..Len(rows) |->
            [PlazaID |-> plaza, Vehicle |-> rows[k].Vehicle,
             Time |-> IF rows[k].Time = NaT THEN NaT ELSE StrTime(rows[k].Time)]]

MergedDir(tbl) ==
    LET resolved == SelectSeq(tbl, LAMBDA r : AppResolvePlaza(r.PlazaID)[1] # NoneStr)
        projects == Unique([k \in 1..Len(resolved) |-> AppResolvePlaza(resolved[k].PlazaID)[3]])
    IN  [n \in 1..Len(projects) |->
            LET mine == SelectSeq(resolved,
                            LAMBDA r : AppResolvePlaza(r.PlazaID)[3] = projects[n])
                plazas == Unique([k \in 1..Len(mine) |-> mine[k].PlazaID])
            IN  [project |-> projects[n],
                 files |-> [f \in 1..Len(plazas) |-> MergedFile(mine, plazas[f])]]]

\* app.py, line 855: str.to_datetime(strict=False), a text that is no
\* timestamp becomes null
PolarsToDatetime(c) ==
    IF c = Unparseable THEN NaT ELSE IF IsStr(c) THEN StrBase - c ELSE c

\* app.py, lines 894-901: one iteration of the loop
FileLoopBody(ws, we, tc, t) ==
    IF ws = None \/ Gt(t, we)
    THEN [window_start |-> t, window_end |-> AddSeconds(t, 24 * SecondsPerHour),
          trip_count |-> 1]
    ELSE [window_start |-> ws, window_end |-> we, trip_count |-> tc + 1]

\* app.py, lines 886-901: the loop over the times
RECURSIVE FileTripCounts(_, _, _, _)
FileTripCounts(times, ws, we, tc) ==
    IF times = <<>> THEN <<>>
    ELSE LET after == FileLoopBody(ws, we, tc, Head(times))
         IN  <<after.trip_count>>
             \o FileTripCounts(Tail(times), after.window_start, after.window_end,
                               after.trip_count)

\* app.py, lines 884-904: calc_tripcount(group)
FileCalcTripcount(rows) ==
    LET sorted == SortByTime(rows)
        counts == FileTripCounts([k \in 1..Len(sorted) |-> sorted[k].Time], None, None, 0)
    IN  [k \in 1..Len(sorted) |-> WithColumn(sorted[k], "TripCount", counts[k])]

\* app.py, line 919: pdf["TripCount"] <= 2
FileIsNap(tc) == tc <= 2

\* app.py, lines 913-916: report_date(ts)
FileReportDate(ts) ==
    IF ts = NaT THEN NoDate
    ELSE IF ts % SecondsPerDay < 8 * SecondsPerHour
         THEN (ts - SecondsPerDay) \div SecondsPerDay
         ELSE ts \div SecondsPerDay

\* app.py, lines 836-927: the steps for one project folder
FileProject(folder) ==
    LET df_all == Concat(folder.files)
        parsed == [k \in 1..Len(df_all) |->
                      WithColumn(df_all[k], "Time", PolarsToDatetime(df_all[k].Time))]
        named == [k \in 1..Len(parsed) |->
                     LET meta == AppResolvePlaza(parsed[k].PlazaID)
                     IN  WithColumn(WithColumn(WithColumn(parsed[k], "Bank", meta[1]),
                                    "PlazaName", meta[2]), "ProjectName", meta[3])]
        pdf == ResetIndex(SortValues(named))
        keys == GroupKeys(pdf)
        counted == ResetIndex(ApplyResult(
                       [g \in 1..Len(keys) |-> FileCalcTripcount(GroupRows(pdf, keys[g]))]))
        dated == [k \in 1..Len(counted) |->
                     WithColumn(counted[k], "ReportDate", FileReportDate(counted[k].Time))]
        flagged == [k \in 1..Len(dated) |->
                       WithColumn(dated[k], "IsQualifiedNAP", FileIsNap(dated[k].TripCount))]
    IN  [project |-> folder.project, transactions |-> flagged,
         summary |-> DailySummary(flagged)]

\* app.py, run_reconciler(merged_dir, ...): what it saves, folder by folder
RunReconcilerFile(merged) ==
    [n \in 1..Len(merged) |-> FileProject(merged[n])]

----------------------------------------------------------------------------
\* reconcile: the checks and the conversion before the pipeline steps

\* the columns of a table (every row of a table has the same columns; the
\* table of no rows is given with all its columns)
Columns(tbl) ==
    IF tbl = <<>>
    THEN {"PlazaID", "Vehicle", "Time", "ProjectName", "PlazaName", "ReportDate"}
    ELSE DOMAIN tbl[1]

\* a table that was built without the columns cols
WithoutColumns(tbl, cols) ==
    [k \in 1..Len(tbl) |-> [c \in DOMAIN tbl[k] \ cols |-> tbl[k][c]]]

\* required_cols, line 148 ("Vehicle" is the column "Vehicle Reg. No." and
\* "Time" the column "Reader Read Time")
RequiredCols == <<"PlazaID", "Vehicle", "Time">>

\* the keys of the groupby of generate_daily_summary, line 125
SummaryCols == <<"ProjectName", "PlazaID", "PlazaName", "ReportDate">>

\* the first of the columns cols that the table does not have, NoneStr if it
\* has them all
RECURSIVE FirstMissing(_, _)
FirstMissing(tbl, cols) ==
    IF cols = <<>> THEN NoneStr
    ELSE IF Head(cols) \notin Columns(tbl) THEN Head(cols)
    ELSE FirstMissing(tbl, Tail(cols))

\* an error that does not say which column is missing
MissingColumnErrorUnnamed(col) == "ValueError: Missing required column"

\* line 151: ValueError(f"Missing required column: {col}")
MissingColumnError(col) ==
    CASE col = "PlazaID" -> "ValueError: Missing required column: PlazaID"
      [] col = "Vehicle" -> "ValueError: Missing required column: Vehicle Reg. No."
      [] col = "Time" -> "ValueError: Missing required column: Reader Read Time"

\* the KeyError of groupby for a key that is not a column
KeyErrorOf(col) ==
    CASE col = "ProjectName" -> "KeyError: ProjectName"
      [] col = "PlazaName" -> "KeyError: PlazaName"
      [] OTHER -> "KeyError"

\* the KeyError of df["TripCount"] for a table that has no such column
TripCountKeyError == "KeyError: TripCount"

\* the ValueError of pd.to_datetime (errors="raise") for a string it cannot parse
ParserError == "ValueError: Unknown datetime string format"

\* a conversion that shifts the cells that are timestamps already
ToDatetimeShifting(c) ==
    IF IsStr(c) THEN StrBase - c
    ELSE IF c = NaT THEN NaT ELSE c + SecondsPerHour

\* pd.to_datetime of one cell: a string is parsed, a timestamp and NaT stay
ToDatetime(c) == IF IsStr(c) THEN StrBase - c ELSE c

\* pd.to_datetime(df["Reader Read Time"]) succeeds
CanParse(tbl) == \A k \in 1..Len(tbl) : tbl[k].Time # Unparseable

\* what the call hands back to its caller: the two tables, or the exception
Returned ==
    IF raised # NoneStr THEN [df |-> <<>>, summary |-> <<>>, raised |-> raised]
    ELSE [df |-> df, summary |-> summary, raised |-> NoneStr]

----------------------------------------------------------------------------
\* The state machine

\* a controller that saves nothing, before run_pipeline (save_to_db=False:
\* result_storage is None)
NoStorage ==
    /\ save_to_db = FALSE
    /\ run_id = NoId
    /\ uuid = 0
    /\ connection = NoneStr
    /\ connections = 0
    /\ db = <<>>

IdleLoop ==
    /\ group = <<>>
    /\ i = 0
    /\ window_start = None
    /\ window_end = None
    /\ trip_count = 0
    /\ trip_counts = <<>>

\* a caller holding a table calls ReconciliationEngine.reconcile(df)
Init ==
    /\ entry = "reconcile"
    /\ pc = "reconcile"
    /\ input \in {Frame(t) : t \in Tables(ReconcileRows, MaxRows)}
    /\ df = input
    /\ groups = <<>>
    /\ applied = <<>>
    /\ IdleLoop
    /\ summary = <<>>
    /\ raised = NoneStr
    /\ original = input
    /\ results = <<>>
    /\ stable_sort = TRUE
    /\ NoStorage

\* a caller holding a table calls ReconciliationEngine.calculate_trip_count(df)
InitTrip ==
    /\ entry = "calculate_trip_count"
    /\ pc = "groupby"
    /\ input \in {Frame(t) : t \in Tables(TripRows, MaxTripRows)}
    /\ df = input
    /\ groups = <<>>
    /\ applied = <<>>
    /\ IdleLoop
    /\ summary = <<>>
    /\ raised = NoneStr
    /\ original = input
    /\ results = <<>>
    /\ stable_sort = TRUE
    /\ NoStorage

\* reconcile, lines 147-151: a required column is missing
RaiseMissingColumn ==
    /\ pc = "reconcile"
    /\ FirstMissing(df, RequiredCols) # NoneStr
    /\ raised' = MissingColumnError(FirstMissing(df, RequiredCols))
    /\ pc' = "raised"
    /\ UNCHANGED <<entry, input, df, groups, applied, loopvars, summary,
                   original, results, stable_sort,
                   storevars>>

\* reconcile, line 154: pd.to_datetime raises
RaiseParserError ==
    /\ pc = "reconcile"
    /\ FirstMissing(df, RequiredCols) = NoneStr
    /\ ~CanParse(df)
    /\ raised' = ParserError
    /\ pc' = "raised"
    /\ UNCHANGED <<entry, input, df, groups, applied, loopvars, summary,
                   original, results, stable_sort,
                   storevars>>

\* reconcile, lines 147-159: the required columns are there; to_datetime, whose
\* result is assigned into the table the caller passed; sort_values;
\* reset_index
Prepare ==
    /\ pc = "reconcile"
    /\ FirstMissing(df, RequiredCols) = NoneStr
    /\ CanParse(df)
    /\ input' = [k \in 1..Len(input) |->
                    WithColumn(input[k], "Time", ToDatetime(input[k].Time))]
    /\ df' = ResetIndex(SortValues(input'))
    /\ pc' = "groupby"
    /\ UNCHANGED <<entry, groups, applied, loopvars, summary, callvars,
                   storevars>>

\* calculate_trip_count, lines 60-64: the groups of df
GroupBy ==
    /\ pc = "groupby"
    /\ groups' = GroupKeys(df)
    /\ applied' = <<>>
    /\ pc' = "apply"
    /\ UNCHANGED <<entry, input, df, loopvars, summary, callvars,
                   storevars>>

\* calc_tripcount, lines 34-40, called with the next group
CalcTripcountBegin ==
    /\ pc = "apply"
    /\ groups # <<>>
    /\ group' = SortByTime(GroupRows(df, Head(groups)))
    /\ i' = 1
    /\ window_start' = None
    /\ window_end' = None
    /\ trip_count' = 0
    /\ trip_counts' = <<>>
    /\ pc' = "loop"
    /\ UNCHANGED <<entry, input, df, groups, applied, summary, callvars,
                   storevars>>

\* calc_tripcount, lines 42-52: one iteration of the loop
CalcTripcountLoop ==
    /\ pc = "loop"
    /\ i <= Len(group)
    /\ LET after == LoopBody(window_start, window_end, trip_count, group[i].Time)
       IN  /\ window_start' = after.window_start
           /\ window_end' = after.window_end
           /\ trip_count' = after.trip_count
    /\ trip_counts' = Append(trip_counts, trip_count')
    /\ i' = i + 1
    /\ UNCHANGED <<entry, pc, input, df, groups, applied, group, summary, callvars,
                   storevars>>

\* calc_tripcount, lines 54-55: the group with its TripCount column is returned
CalcTripcountEnd ==
    /\ pc = "loop"
    /\ i > Len(group)
    /\ applied' = Append(applied,
            [k \in 1..Len(group) |-> WithColumn(group[k], "TripCount", trip_counts[k])])
    /\ groups' = Tail(groups)
    /\ group' = <<>>
    /\ i' = 0
    /\ window_start' = None
    /\ window_end' = None
    /\ trip_count' = 0
    /\ trip_counts' = <<>>
    /\ pc' = "apply"
    /\ UNCHANGED <<entry, input, df, summary, callvars,
                   storevars>>

\* calculate_trip_count, lines 64-66: the frames put together, reset_index
ApplyEnd ==
    /\ pc = "apply"
    /\ groups = <<>>
    /\ df' = ResetIndex(ApplyResult(applied))
    /\ applied' = <<>>
    /\ pc' = IF entry = "calculate_trip_count" THEN "returned" ELSE "report_date"
    /\ UNCHANGED <<entry, input, groups, loopvars, summary, callvars,
                   storevars>>

\* calculate_report_date, lines 92-93
CalculateReportDate ==
    /\ pc = "report_date"
    /\ df' = [k \in DOMAIN df |-> WithColumn(df[k], "ReportDate", report_date(df[k].Time))]
    /\ pc' = "nap"
    /\ UNCHANGED <<entry, input, groups, applied, loopvars, summary, callvars,
                   storevars>>

\* determine_nap_qualification, lines 110-111
DetermineNapQualification ==
    /\ pc = "nap"
    /\ df # <<>>
    /\ df' = [k \in DOMAIN df |-> WithColumn(df[k], "IsQualifiedNAP", IsNap(df[k].TripCount))]
    /\ pc' = "summary"
    /\ UNCHANGED <<entry, input, groups, applied, loopvars, summary, callvars,
                   storevars>>

\* determine_nap_qualification, line 110, after a groupby that found no group:
\* apply called calc_tripcount for no group and returned an empty table with
\* the columns of its input, so there is no TripCount column
RaiseNoTripCount ==
    /\ pc = "nap"
    /\ df = <<>>
    /\ raised' = TripCountKeyError
    /\ pc' = "raised"
    /\ UNCHANGED <<entry, input, df, groups, applied, loopvars, summary,
                   original, results, stable_sort,
                   storevars>>

\* generate_daily_summary, and reconcile returns (df, summary)
GenerateDailySummary ==
    /\ pc = "summary"
    /\ FirstMissing(df, SummaryCols) = NoneStr
    /\ summary' = DailySummary(df)
    /\ pc' = "returned"
    /\ UNCHANGED <<entry, input, df, groups, applied, loopvars, callvars,
                   storevars>>

\* generate_daily_summary, line 125: groupby on a key that is not a column
RaiseKeyError ==
    /\ pc = "summary"
    /\ FirstMissing(df, SummaryCols) # NoneStr
    /\ raised' = KeyErrorOf(FirstMissing(df, SummaryCols))
    /\ pc' = "raised"
    /\ UNCHANGED <<entry, input, df, groups, applied, loopvars, summary,
                   original, results, stable_sort,
                   storevars>>

\* the caller keeps what the call returned or raised and calls reconcile again
\* with the same table object
CallAgain ==
    /\ entry = "reconcile"
    /\ pc \in {"returned", "raised"}
    /\ Len(results) + 1 < MaxCalls
    /\ results' = Append(results, Returned)
    /\ original' = input
    /\ df' = input
    /\ summary' = <<>>
    /\ raised' = NoneStr
    /\ pc' = "reconcile"
    /\ UNCHANGED <<entry, input, groups, applied, loopvars, stable_sort,
                   storevars>>

CalculateTripCount ==
    \/ GroupBy
    \/ CalcTripcountBegin
    \/ CalcTripcountLoop
    \/ CalcTripcountEnd
    \/ ApplyEnd

Next ==
    \/ Prepare
    \/ CalculateTripCount
    \/ CalculateReportDate
    \/ DetermineNapQualification
    \/ GenerateDailySummary

Spec == Init /\ [][Next]_vars

\* a caller holding a table, which may lack columns and may hold timestamps as
\* strings, calls ReconciliationEngine.reconcile(df), in a build whose
\* quicksort keeps ties in order or one where it does not
InitCalls ==
    /\ entry = "reconcile"
    /\ pc = "reconcile"
    /\ input \in {Frame(WithoutColumns(t, m)) :
                    t \in Tables(CallRows, MaxCallRows), m \in MissingColumns}
    /\ df = input
    /\ groups = <<>>
    /\ applied = <<>>
    /\ IdleLoop
    /\ summary = <<>>
    /\ raised = NoneStr
    /\ original = input
    /\ results = <<>>
    /\ stable_sort \in BOOLEAN
    /\ NoStorage

NextCalls ==
    \/ RaiseMissingColumn
    \/ RaiseParserError
    \/ Prepare
    \/ CalculateTripCount
    \/ CalculateReportDate
    \/ DetermineNapQualification
    \/ GenerateDailySummary
    \/ RaiseKeyError
    \/ CallAgain

SpecCalls == InitCalls /\ [][NextCalls]_vars

\* DataConsolidator.consolidate, lines 38-64: metadata, source month, required
\* columns, sort; the caller hands the consolidated table to run_pipeline
Consolidate ==
    /\ pc = "consolidate"
    /\ \E bank \in MetadataBanks :
          LET meta == ConsolidatorMetadata(df, bank)
              month == [k \in 1..Len(meta) |->
                          WithColumn(meta[k], "SourceMonth", SourceMonth(meta[k].Time))]
          IN  df' = ResetIndex(SortValues(EnsureRequiredColumns(month)))
    /\ input' = df'
    /\ original' = df'
    /\ pc' = "run_pipeline"
    /\ UNCHANGED <<entry, groups, applied, loopvars, summary, raised, results,
                   stable_sort,
                   storevars>>

\* ReconcilerController.run_pipeline, lines 67-75: plaza metadata if PlazaName
\* or ProjectName is not a column, then ReconciliationEngine.reconcile(df)
RunPipeline ==
    /\ pc = "run_pipeline"
    /\ \E bank \in MetadataBanks, project \in MetadataProjects :
          df' = IF "PlazaName" \notin Columns(df) \/ "ProjectName" \notin Columns(df)
                THEN ControllerMetadata(df, bank, project)
                ELSE df
    /\ input' = df'
    /\ original' = df'
    /\ uuid' = uuid + 1
    /\ run_id' = uuid'
    /\ pc' = "reconcile"
    /\ UNCHANGED <<entry, groups, applied, loopvars, summary, raised, results,
                   stable_sort, save_to_db, connection, connections, db>>

\* a results dict whose total_atp counts every transaction
ResultsAtpEveryRow(id, transactions_df, summary_df) ==
    LET total_nap == Cardinality({k \in 1..Len(transactions_df) :
                                    transactions_df[k].IsQualifiedNAP})
    IN  [run_id |-> id,
         total_transactions |-> Len(transactions_df),
         total_nap |-> total_nap,
         total_atp |-> Len(transactions_df),
         summary_rows |-> Len(summary_df),
         status |-> "completed"]

\* ReconcilerController.run_pipeline, lines 80-91: total_transactions,
\* total_nap and the results dict
Results(id, transactions_df, summary_df) ==
    LET total_nap == Cardinality({k \in 1..Len(transactions_df) :
                                    transactions_df[k].IsQualifiedNAP})
    IN  [run_id |-> id,
         total_transactions |-> Len(transactions_df),
         total_nap |-> total_nap,
         total_atp |-> Len(transactions_df) - total_nap,
         summary_rows |-> Len(summary_df),
         status |-> "completed"]

\* ReconcilerController.run_pipeline, lines 80-108: the results dict; without
\* save_to_db the pipeline returns, with it _save_results is next
PipelineResults ==
    /\ pc = "returned"
    /\ entry \in {"consolidate", "run_pipeline", "controller.reconcile"}
    /\ results' = <<Results(run_id, df, summary)>>
    /\ pc' = IF save_to_db THEN "save_run" ELSE "completed"
    /\ UNCHANGED <<entry, input, df, groups, applied, loopvars, summary, raised,
                   original, stable_sort,
                   storevars>>

\* a caller holding a table without metadata columns calls run_pipeline, or
\* calls DataConsolidator.consolidate first
InitPipeline ==
    /\ entry \in {"consolidate", "run_pipeline"}
    /\ pc = entry
    /\ input \in {Frame(t) : t \in Tables(PipelineRows, MaxPipelineRows)}
    /\ df = input
    /\ groups = <<>>
    /\ applied = <<>>
    /\ IdleLoop
    /\ summary = <<>>
    /\ raised = NoneStr
    /\ original = input
    /\ results = <<>>
    /\ stable_sort = TRUE
    /\ NoStorage

NextPipeline ==
    \/ Consolidate
    \/ RunPipeline
    \/ Prepare
    \/ CalculateTripCount
    \/ CalculateReportDate
    \/ DetermineNapQualification
    \/ GenerateDailySummary
    \/ PipelineResults

SpecPipeline == InitPipeline /\ [][NextPipeline]_vars

\* a caller calls ReconciliationEngine.reconcile(df) with a table that has every
\* column and may have no rows or rows with nulls in the key columns
InitEdge ==
    /\ entry = "reconcile"
    /\ pc = "reconcile"
    /\ input \in {Frame(t) : t \in Tables(EdgeRows, MaxEdgeRows) \cup {<<>>}}
    /\ df = input
    /\ groups = <<>>
    /\ applied = <<>>
    /\ IdleLoop
    /\ summary = <<>>
    /\ raised = NoneStr
    /\ original = input
    /\ results = <<>>
    /\ stable_sort = TRUE
    /\ NoStorage

NextEdge ==
    \/ Prepare
    \/ CalculateTripCount
    \/ CalculateReportDate
    \/ DetermineNapQualification
    \/ RaiseNoTripCount
    \/ GenerateDailySummary

SpecEdge == InitEdge /\ [][NextEdge]_vars

\* the same transactions are given to run_reconciler of
\* annual_pass_reconciler.py, as the table reconcile was called with
RunReconcilerDbCall ==
    /\ pc = "returned"
    /\ entry = "reconcile"
    /\ results = <<>>
    /\ results' = <<[source |-> "db", projects |-> RunReconcilerDb(input)]>>
    /\ pc' = "db_done"
    /\ UNCHANGED <<entry, input, df, groups, applied, loopvars, summary, raised,
                   original, stable_sort,
                   storevars>>

\* the same transactions are given to run_reconciler of app.py, as the MERGED
\* directory that holds them
RunReconcilerFileCall ==
    /\ pc = "db_done"
    /\ results' = Append(results,
                    [source |-> "file", projects |-> RunReconcilerFile(MergedDir(input))])
    /\ pc' = "file_done"
    /\ UNCHANGED <<entry, input, df, groups, applied, loopvars, summary, raised,
                   original, stable_sort,
                   storevars>>

\* a caller gives one set of transactions to reconcile and then to the two
\* run_reconciler functions
InitSources ==
    /\ entry = "reconcile"
    /\ pc = "reconcile"
    /\ input \in {Frame(t) : t \in Tables(SourceRows, MaxSourceRows)}
    /\ df = input
    /\ groups = <<>>
    /\ applied = <<>>
    /\ IdleLoop
    /\ summary = <<>>
    /\ raised = NoneStr
    /\ original = input
    /\ results = <<>>
    /\ stable_sort = TRUE
    /\ NoStorage

NextSources ==
    \/ Prepare
    \/ CalculateTripCount
    \/ CalculateReportDate
    \/ DetermineNapQualification
    \/ GenerateDailySummary
    \/ RunReconcilerDbCall
    \/ RunReconcilerFileCall

SpecSources == InitSources /\ [][NextSources]_vars

----------------------------------------------------------------------------
\* ResultStorage and the saving half of ReconcilerController

\* the largest table handed to the convenience function reconcile
MaxStoreRows == 3

\* the rows of those tables: three reads of one vehicle within one window,
\* the third of which is no NAP, and a read whose timestamp no parser accepts
StoreRows ==
    {[PlazaID |-> "220001", Vehicle |-> "MH01AB1234", Time |-> At(2, 8, 0, 0)],
     [PlazaID |-> "220001", Vehicle |-> "MH01AB1234", Time |-> At(2, 9, 0, 0)],
     [PlazaID |-> "220001", Vehicle |-> "MH01AB1234", Time |-> At(2, 10, 0, 0)],
     [PlazaID |-> "220001", Vehicle |-> "MH01AB1234", Time |-> Unparseable]}

\* how a call of ResultStorage can end: connect() raises, a later statement
\* (cursor, execute, commit) raises, or the call commits and returns
SaveOutcomes == {"connect raises", "execute raises", "saved"}

\* the exceptions of mysql.connector, by the call that raised
SaveRunError == "DatabaseError: save_run"
SaveTransactionsError == "DatabaseError: save_transactions"
SaveDailySummaryError == "DatabaseError: save_daily_summary"

\* a connect() that opens a connection at every call
OpensAlways(conn) == 1

\* ResultStorage.connect, lines 47-55: the connections a call opens
Opens(conn) == IF conn = NoneStr THEN 1 ELSE 0

\* ResultStorage.connect, lines 47-56: self.connection after the call
connect(conn) == IF conn = NoneStr THEN "MySQLConnection" ELSE conn

\* ResultStorage.disconnect, lines 60-62: the connections a call closes
Closes(conn) == IF conn # NoneStr THEN 1 ELSE 0

\* ReconcilerController._save_results, lines 185-196: run_meta
RunMeta(res) ==
    [total_transactions |-> res.total_transactions,
     total_nap |-> res.total_nap,
     status |-> res.status]

\* ReconcilerController.run_pipeline, lines 120-125: run_meta of a failed run
FailedRunMeta ==
    [total_transactions |-> 0, total_nap |-> 0, status |-> "failed"]

\* ResultStorage.save_run, lines 90-110: the row of reconciliation_runs
RunRecord(id, run_metadata) ==
    [table |-> "reconciliation_runs",
     run_id |-> id,
     total_transactions |-> run_metadata.total_transactions,
     total_nap |-> run_metadata.total_nap,
     status |-> run_metadata.status]

\* ResultStorage.save_transactions, lines 131-154: the rows of
\* reconciliation_transactions of one commit
TransactionRecords(id, transactions) ==
    [table |-> "reconciliation_transactions", run_id |-> id,
     rows |-> Len(transactions)]

\* ResultStorage.save_daily_summary, lines 169-187: the rows of
\* reconciliation_daily_summary of one commit
SummaryRecords(id, summary_df) ==
    [table |-> "reconciliation_daily_summary", run_id |-> id,
     rows |-> Len(summary_df)]

\* ResultStorage.connect as save_run, save_transactions and
\* save_daily_summary call it (lines 86, 128, 165): it raises only when it
\* has to open a connection
Connected(outcome) ==
    /\ outcome = "connect raises" => connection = NoneStr
    /\ connection' = IF outcome = "connect raises"
                     THEN connection ELSE connect(connection)
    /\ connections' = IF outcome = "connect raises"
                      THEN connections ELSE connections + Opens(connection)

\* ResultStorage.save_run, lines 84-115: a new UUID, connect, INSERT, commit
save_run(run_metadata, outcome) ==
    /\ uuid' = uuid + 1
    /\ Connected(outcome)
    /\ db' = IF outcome = "saved"
             THEN Append(db, RunRecord(uuid', run_metadata)) ELSE db

\* ReconcilerController._save_results, lines 185-203: save_run, and its
\* run_id becomes results['run_id'] and self.run_id
SaveRun ==
    /\ pc = "save_run"
    /\ \E outcome \in SaveOutcomes :
          /\ save_run(RunMeta(results[1]), outcome)
          /\ IF outcome = "saved"
             THEN /\ results' = <<[results[1] EXCEPT !.run_id = uuid']>>
                  /\ run_id' = uuid'
                  /\ raised' = raised
                  /\ pc' = "save_transactions"
             ELSE /\ raised' = SaveRunError
                  /\ pc' = "raised"
                  /\ UNCHANGED <<results, run_id>>
    /\ UNCHANGED <<entry, input, df, groups, applied, loopvars, summary,
                   original, stable_sort, save_to_db>>

\* ReconcilerController._save_results, line 206, and
\* ResultStorage.save_transactions, lines 128-155
SaveTransactions ==
    /\ pc = "save_transactions"
    /\ \E outcome \in SaveOutcomes :
          /\ Connected(outcome)
          /\ IF outcome = "saved"
             THEN /\ db' = Append(db, TransactionRecords(run_id, df))
                  /\ raised' = raised
                  /\ pc' = "save_daily_summary"
             ELSE /\ db' = db
                  /\ raised' = SaveTransactionsError
                  /\ pc' = "raised"
    /\ UNCHANGED <<entry, input, df, groups, applied, loopvars, summary,
                   original, results, stable_sort, save_to_db, run_id, uuid>>

\* ReconcilerController._save_results, line 209, and
\* ResultStorage.save_daily_summary, lines 165-188; run_pipeline returns
SaveDailySummary ==
    /\ pc = "save_daily_summary"
    /\ \E outcome \in SaveOutcomes :
          /\ Connected(outcome)
          /\ IF outcome = "saved"
             THEN /\ db' = Append(db, SummaryRecords(run_id, summary))
                  /\ raised' = raised
                  /\ pc' = "completed"
             ELSE /\ db' = db
                  /\ raised' = SaveDailySummaryError
                  /\ pc' = "raised"
    /\ UNCHANGED <<entry, input, df, groups, applied, loopvars, summary,
                   original, results, stable_sort, save_to_db, run_id, uuid>>

\* ReconcilerController.run_pipeline, lines 110-128: the except clause. The
\* results dict of the failure; with save_to_db a save_run of the failed run,
\* whose run_id is dropped and whose exception, if it raises, is the one that
\* leaves run_pipeline; otherwise raise e
HandleException ==
    /\ pc = "raised"
    /\ entry = "controller.reconcile"
    /\ results' = <<[run_id |-> run_id, status |-> "failed", error |-> raised]>>
    /\ IF save_to_db
       THEN \E outcome \in SaveOutcomes :
                /\ save_run(FailedRunMeta, outcome)
                /\ raised' = IF outcome = "saved" THEN raised ELSE SaveRunError
       ELSE UNCHANGED <<raised, uuid, connection, connections, db>>
    /\ pc' = "propagated"
    /\ UNCHANGED <<entry, input, df, groups, applied, loopvars, summary,
                   original, stable_sort, save_to_db, run_id>>

\* reconcile of reconciler_controller.py, lines 267-270, with
\* ReconcilerController.cleanup, lines 243-244, and ResultStorage.disconnect,
\* lines 60-62: the finally clause, after run_pipeline returned or raised
Cleanup ==
    /\ pc \in {"completed", "propagated"}
    /\ entry = "controller.reconcile"
    /\ IF save_to_db
       THEN /\ connections' = connections - Closes(connection)
            /\ connection' = NoneStr
       ELSE UNCHANGED <<connection, connections>>
    /\ pc' = IF pc = "completed" THEN "reconcile returned" ELSE "reconcile raised"
    /\ UNCHANGED <<entry, input, df, groups, applied, loopvars, summary,
                   callvars, save_to_db, run_id, uuid, db>>

\* reconcile(df, metadata, save_to_db) of reconciler_controller.py, line 266:
\* a new controller, whose storage has no connection, and a table without
\* metadata columns, with or without its Vehicle column
InitStore ==
    /\ entry = "controller.reconcile"
    /\ pc = "run_pipeline"
    /\ input \in {Frame(WithoutColumns(t, m)) :
                    t \in Tables(StoreRows, MaxStoreRows), m \in {{}, {"Vehicle"}}}
    /\ df = input
    /\ groups = <<>>
    /\ applied = <<>>
    /\ IdleLoop
    /\ summary = <<>>
    /\ raised = NoneStr
    /\ original = input
    /\ results = <<>>
    /\ stable_sort = TRUE
    /\ save_to_db \in BOOLEAN
    /\ run_id = NoId
    /\ uuid = 0
    /\ connection = NoneStr
    /\ connections = 0
    /\ db = <<>>

NextStore ==
    \/ RunPipeline
    \/ RaiseMissingColumn
    \/ RaiseParserError
    \/ Prepare
    \/ CalculateTripCount
    \/ CalculateReportDate
    \/ DetermineNapQualification
    \/ GenerateDailySummary
    \/ PipelineResults
    \/ SaveRun
    \/ SaveTransactions
    \/ SaveDailySummary
    \/ HandleException
    \/ Cleanup

SpecStore == InitStore /\ [][NextStore]_vars

NextTrip == CalculateTripCount

SpecTrip == InitTrip /\ [][NextTrip]_vars

----------------------------------------------------------------------------
\* Properties of calculate_trip_count (checked under SpecTrip)

Day == 24 * 60 * 60

\* rows k-1 and k of a frame are in ascending timestamp order (NaT last)
Ascending(f) == \A k \in 2..Len(f) : ~TimeBefore(f[k].Time, f[k - 1].Time)

\* the row that opened the window row k of a returned frame belongs to
WindowStartRow(f, k) == CHOOSE j \in 1..k : f[j].TripCount = 1 /\ \A m \in (j + 1)..k : f[m].TripCount # 1

\* C1: calc_tripcount walks its partition in ascending timestamp order, and one
\* iteration at time t opens a new window (window_start = t, window_end = t + 24h,
\* trip_count = 1) if and only if no window is open or t > window_end; in every
\* other case the window stays and the row receives the previous trip_count + 1.
C1_WindowOpensIffExpired ==
    [][(pc = "loop" /\ i' = i + 1) =>
        LET t == group[i].Time
            expired == window_start = None
                       \/ (t # NaT /\ window_end # NaT /\ t > window_end)
            opened == /\ window_start' = t
                      /\ window_end' = (IF t = NaT THEN NaT ELSE t + Day)
                      /\ trip_counts'[i] = 1
            stayed == /\ window_start' = window_start
                      /\ window_end' = window_end
                      /\ i > 1
                      /\ trip_counts'[i] = trip_counts[i - 1] + 1
        IN  /\ Ascending(group)
            /\ \A k \in 1..Len(group) : GroupKeyOf(group[k]) = Head(groups)
            /\ opened <=> expired
            /\ ~expired => stayed
            /\ Len(trip_counts') = i]_vars

\* C1 witness: a walk in which the second read stayed in the window and the third
\* opened a new one
C1_Witness ==
    /\ pc = "loop"
    /\ trip_counts = <<1, 2, 1>>
    /\ window_start = group[3].Time
    /\ window_end = group[3].Time + Day

\* C2: in a returned partition a read exactly 24h after the start of the current
\* window continues the count of that window, and a read 24h + 1s after it
\* starts a new window with trip_count = 1.
C2_BoundaryLaw ==
    \A n \in 1..Len(applied) :
        LET f == applied[n]
        IN  \A k \in 2..Len(f) :
                LET ws == f[WindowStartRow(f, k - 1)].Time
                IN  /\ (ws # NaT /\ f[k].Time = ws + Day)
                        => f[k].TripCount = f[k - 1].TripCount + 1
                    /\ (ws # NaT /\ f[k].Time = ws + Day + 1)
                        => f[k].TripCount = 1

\* C2 witness: reads at T, T + 24h and T + 24h + 1s counted 1, 2, 1
C2_Witness ==
    \E n \in 1..Len(applied) :
        LET f == applied[n]
        IN  /\ Len(f) = 3
            /\ f[2].Time = f[1].Time + Day
            /\ f[3].Time = f[1].Time + Day + 1
            /\ <<f[1].TripCount, f[2].TripCount, f[3].TripCount>> = <<1, 2, 1>>

\* C3: the trip counts of a partition, read in ascending timestamp order, are
\* positive integers that start at 1, increase by exactly 1 inside a window and
\* are 1 again on the first read of each new window (a read more than 24h after
\* the read that opened the current window).
C3_TripCountShape ==
    /\ \A n \in 1..Len(applied) :
        LET f == applied[n]
        IN  /\ Len(f) >= 1
            /\ Ascending(f)
            /\ f[1].TripCount = 1
            /\ \A k \in 1..Len(f) : f[k].TripCount \in Nat \ {0}
            /\ \A k \in 2..Len(f) :
                LET ws == f[WindowStartRow(f, k - 1)].Time
                IN  IF ws # NaT /\ f[k].Time # NaT /\ f[k].Time > ws + Day
                    THEN f[k].TripCount = 1
                    ELSE f[k].TripCount = f[k - 1].TripCount + 1
    /\ pc = "returned" =>
        /\ \A k \in 1..Len(df) : df[k].TripCount \in 1..Len(df)
        /\ \A key \in {GroupKeyOf(df[k]) : k \in 1..Len(df)} :
              \E k \in 1..Len(df) : GroupKeyOf(df[k]) = key /\ df[k].TripCount = 1

\* C3 witness: a returned table whose partition counted 1, 2, 3 and then 1 again
C3_Witness ==
    /\ pc = "returned"
    /\ Len(df) = 4
    /\ \A k \in 1..4 : df[k].Vehicle = "MH01AB1234"
    /\ \E k \in 1..4 : df[k].TripCount = 3
    /\ Cardinality({k \in 1..4 : df[k].TripCount = 1}) = 2

\* C4: the window is anchored at its first read: a read more than 24h after the
\* read that opened the current window starts a new window even when it is less
\* than 24h after the read before it; reads at T, T+4h, T+8h, T+25h count 1, 2, 3, 1.
C4_AnchoredAtFirstRead ==
    \A n \in 1..Len(applied) :
        LET f == applied[n]
            T == At(1, 10, 0, 0)
        IN  /\ \A k \in 2..Len(f) :
                LET ws == f[WindowStartRow(f, k - 1)].Time
                IN  (/\ f[k].Time # NaT
                     /\ f[k].Time - ws > Day
                     /\ f[k].Time - f[k - 1].Time < Day)
                        => f[k].TripCount = 1
            /\ [k \in 1..Len(f) |-> f[k].Time]
                    = <<T, T + 4 * 3600, T + 8 * 3600, T + 25 * 3600>>
                => [k \in 1..Len(f) |-> f[k].TripCount] = <<1, 2, 3, 1>>

\* C4 witness: the reads of test_trip_count_logic, given out of order, counted
C4_Witness ==
    /\ pc = "returned"
    /\ input[1].Time = At(2, 11, 0, 0)
    /\ [k \in 1..Len(df) |-> df[k].Time]
            = <<At(1, 10, 0, 0), At(1, 14, 0, 0), At(1, 18, 0, 0), At(2, 11, 0, 0)>>
    /\ [k \in 1..Len(df) |-> df[k].TripCount] = <<1, 2, 3, 1>>
    /\ \A k \in 1..Len(df) : df[k].Vehicle = "MH01AB1234"

----------------------------------------------------------------------------
\* Properties of reconcile (checked under Spec)

\* the rows of a table that carry the four values of a summary key
RowsWithKey(rows, s) ==
    {k \in 1..Len(rows) :
        /\ rows[k].ProjectName = s.ProjectName
        /\ rows[k].PlazaID = s.PlazaID
        /\ rows[k].PlazaName = s.PlazaName
        /\ rows[k].ReportDate = s.ReportDate}

\* the rows of a table with no null among the four key values
Resolved(rows) ==
    {k \in 1..Len(rows) :
        /\ rows[k].ProjectName # NoneStr
        /\ rows[k].PlazaID # NoneStr
        /\ rows[k].PlazaName # NoneStr
        /\ rows[k].ReportDate # NoDate}

RECURSIVE Total(_, _)
Total(rows, col) == IF rows = <<>> THEN 0 ELSE Head(rows)[col] + Total(Tail(rows), col)

\* C5: every row of the reconciled table has IsQualifiedNAP true exactly when
\* its TripCount is at most 2.
C5_NapIffAtMostTwoTrips ==
    pc \in {"summary", "returned"} =>
        \A k \in 1..Len(df) : df[k].IsQualifiedNAP = (df[k].TripCount <= 2)

\* C5 witness: a reconciled table with a second trip that qualifies and a third
\* trip that does not
C5_Witness ==
    /\ pc = "returned"
    /\ \E k \in 1..Len(df) : df[k].TripCount = 2 /\ df[k].IsQualifiedNAP
    /\ \E k \in 1..Len(df) : df[k].TripCount = 3 /\ ~df[k].IsQualifiedNAP

\* C6: the report date of a non-null timestamp is the previous calendar date when
\* its time of day is before 08:00:00 and its own calendar date otherwise.
C6_ReportDateLaw ==
    pc \in {"nap", "summary", "returned"} =>
        \A k \in 1..Len(df) :
            LET ts == df[k].Time
                date == ts \div Day
                secondOfDay == ts - date * Day
            IN  ts # NaT =>
                    df[k].ReportDate = (IF secondOfDay < 8 * 3600 THEN date - 1 ELSE date)

\* C6 witness: reads at 07:59:59 and at 08:00:00 of day 2, dated day 1 and day 2
C6_Witness ==
    /\ pc = "returned"
    /\ \E k \in 1..Len(df) : df[k].Time = At(2, 7, 59, 59) /\ df[k].ReportDate = 1
    /\ \E k \in 1..Len(df) : df[k].Time = At(2, 8, 0, 0) /\ df[k].ReportDate = 2

\* C7: in every row of the daily summary ATP is the number of reconciled rows
\* with that (ProjectName, PlazaID, PlazaName, ReportDate) and NAP the number of
\* those whose IsQualifiedNAP is true.
C7_AtpNapCounts ==
    pc = "returned" =>
        \A n \in 1..Len(summary) :
            LET same == RowsWithKey(df, summary[n])
            IN  /\ summary[n].ATP = Cardinality(same)
                /\ summary[n].NAP = Cardinality({k \in same : df[k].IsQualifiedNAP})

\* C7 witness: a summary row of three reads, two of them NAP-qualified
C7_Witness ==
    /\ pc = "returned"
    /\ \E n \in 1..Len(summary) : summary[n].ATP = 3 /\ summary[n].NAP = 2

\* C8: every row of the daily summary has 0 <= NAP <= ATP and ATP >= 1.
C8_NapAtMostAtp ==
    pc = "returned" =>
        \A n \in 1..Len(summary) :
            /\ 0 <= summary[n].NAP
            /\ summary[n].NAP <= summary[n].ATP
            /\ summary[n].ATP >= 1

\* C8 witness: a summary row with no NAP-qualified read (the third trip of a
\* vehicle whose first two reads have no project)
C8_Witness ==
    /\ pc = "returned"
    /\ \E n \in 1..Len(summary) : summary[n].NAP = 0 /\ summary[n].ATP = 1
    /\ \E k \in 1..Len(df) : df[k].ProjectName = NoneStr

\* C9: the daily summary has exactly one row for each distinct (ProjectName,
\* PlazaID, PlazaName, ReportDate) of the reconciled rows in which all four are
\* non-null: no key twice, none missing, no other.
C9_OneRowPerKey ==
    pc = "returned" =>
        /\ {SummaryKey(summary[n]) : n \in 1..Len(summary)}
                = {SummaryKey(df[k]) : k \in Resolved(df)}
        /\ \A m, n \in 1..Len(summary) :
                SummaryKey(summary[m]) = SummaryKey(summary[n]) => m = n

\* C9 witness: three reconciled rows, two of them sharing a key, two summary rows
C9_Witness ==
    /\ pc = "returned"
    /\ Len(summary) = 2
    /\ Cardinality(Resolved(df)) = 3

\* C10: a reconciled row whose ReportDate or ProjectName is null contributes to
\* no summary row: no summary row is made of such rows, and the ATP and NAP
\* values add up to the rows with no null key value.
C10_NullRowsExcluded ==
    pc = "returned" =>
        /\ \A n \in 1..Len(summary) :
                /\ summary[n].ProjectName \notin {NoneStr, "Unknown"}
                /\ summary[n].ReportDate # NoDate
                /\ RowsWithKey(df, summary[n]) \subseteq Resolved(df)
                /\ RowsWithKey(df, summary[n]) # {}
        /\ Total(summary, "ATP") = Cardinality(Resolved(df))
        /\ Total(summary, "NAP") = Cardinality({k \in Resolved(df) : df[k].IsQualifiedNAP})

\* C10 witness: a reconciled table with a row of null project, a row of null
\* report date and one resolved row, which alone is summed
C10_Witness ==
    /\ pc = "returned"
    /\ \E k \in 1..Len(df) : df[k].ProjectName = NoneStr /\ df[k].ReportDate # NoDate
    /\ \E k \in 1..Len(df) : df[k].ReportDate = NoDate /\ df[k].ProjectName # NoneStr
    /\ Len(summary) = 1
    /\ summary[1].ATP = 1

----------------------------------------------------------------------------
\* Order of the daily summary (checked under Spec)

\* C11: the rows of the daily summary that generate_daily_summary returns are in
\* ascending order of (ProjectName, PlazaID, ReportDate): of two consecutive rows
\* the earlier has the smaller project, or the same project and the smaller
\* plaza, or the same project and plaza and a report date that is not later.
C11_SummarySorted ==
    pc = "returned" /\ entry = "reconcile" =>
        \A k \in 2..Len(summary) :
            LET a == summary[k - 1]
                b == summary[k]
            IN  \/ Ord(a.ProjectName) < Ord(b.ProjectName)
                \/ /\ a.ProjectName = b.ProjectName
                   /\ \/ Ord(a.PlazaID) < Ord(b.PlazaID)
                      \/ a.PlazaID = b.PlazaID /\ a.ReportDate <= b.ReportDate

\* a summary of three rows: two report dates of one plaza of BPPTPL, then GHOTI
\* (whose plaza ID 142001 is the smaller one)
C11_Witness ==
    /\ pc = "returned"
    /\ entry = "reconcile"
    /\ Len(summary) = 3
    /\ summary[1].ProjectName = "BPPTPL" /\ summary[2].ProjectName = "BPPTPL"
    /\ summary[1].PlazaID = summary[2].PlazaID
    /\ summary[1].ReportDate < summary[2].ReportDate
    /\ summary[3].ProjectName = "GHOTI"
    /\ Ord(summary[3].PlazaID) < Ord(summary[1].PlazaID)

----------------------------------------------------------------------------
\* Partitions and null timestamps (checked under Spec)

\* the trip counts of a partition whose reads, in ascending order, are at the
\* times ts, worked out from these times alone: ws is the start of the open
\* window (None before the first read) and tc the count of the previous read
RECURSIVE CountsAlone(_, _, _)
CountsAlone(ts, ws, tc) ==
    IF ts = <<>> THEN <<>>
    ELSE LET t == Head(ts)
             expired == ws = None \/ (t # NaT /\ ws # NaT /\ t > ws + Day)
         IN  IF expired THEN <<1>> \o CountsAlone(Tail(ts), t, 1)
             ELSE <<tc + 1>> \o CountsAlone(Tail(ts), ws, tc + 1)

\* the rows of a table that belong to the partition (plaza, vehicle)
Partition(rows, plaza, vehicle) ==
    SelectSeq(rows, LAMBDA r : r.PlazaID = plaza /\ r.Vehicle = vehicle)

\* C17: the trip counts of the transactions of a (plaza, vehicle) partition depend
\* only on the timestamps of that partition: whatever other plazas and vehicles
\* the table holds, the returned rows of the partition are its input rows in
\* ascending time order with the trip counts that these times alone give, and a
\* partition of a single transaction gets trip count 1.
C17_PartitionIndependence ==
    pc = "returned" /\ entry = "reconcile" =>
        \A j \in 1..Len(input) :
            LET own == Partition(input, input[j].PlazaID, input[j].Vehicle)
                out == Partition(df, input[j].PlazaID, input[j].Vehicle)
            IN  /\ Len(out) = Len(own)
                /\ Ascending(out)
                /\ \A t \in {own[k].Time : k \in 1..Len(own)} :
                       Cardinality({k \in 1..Len(own) : own[k].Time = t})
                           = Cardinality({k \in 1..Len(out) : out[k].Time = t})
                /\ [k \in 1..Len(out) |-> out[k].TripCount]
                       = CountsAlone([k \in 1..Len(out) |-> out[k].Time], None, 0)
                /\ Len(own) = 1 => out[1].TripCount = 1

\* two vehicles read at one plaza and a read at another plaza: three partitions
\* of a single transaction each, or one of two reads next to one of a single read
C17_Witness ==
    /\ pc = "returned"
    /\ entry = "reconcile"
    /\ Len(df) = 3
    /\ \E a, b \in 1..3 :
           /\ df[a].PlazaID = df[b].PlazaID
           /\ df[a].Vehicle # df[b].Vehicle
           /\ df[a].Time # NaT /\ df[b].Time # NaT
           /\ df[a].TripCount = 1 /\ df[b].TripCount = 1
           /\ \E c \in 1..3 \ {a, b} : df[c].Vehicle = df[a].Vehicle /\ df[c].TripCount = 2

\* C14 (as stated): a row whose timestamp is null is kept in the reconciled
\* output with a null trip_count and a null report_date.
C14_NullTimestampSkipped ==
    pc = "returned" /\ entry = "reconcile" =>
        /\ Len(df) = Len(input)
        /\ \A k \in 1..Len(df) :
               df[k].Time = NaT => df[k].TripCount = None /\ df[k].ReportDate = NoDate

----------------------------------------------------------------------------
\* Properties of a call of reconcile as its caller sees it (checked under
\* SpecCalls)

\* the required columns the caller's table lacks
MissingRequired == {"PlazaID", "Vehicle", "Time"} \ Columns(original)

\* C12: when the input table lacks PlazaID, Vehicle Reg. No. or Reader Read
\* Time, reconcile fails at once with an error that names a missing column:
\* the call is either not started or has raised that error, the caller's table
\* is as it was, and no grouping, windowing, report-date or aggregation step
\* has produced anything.
C12_MissingColumnFailsFirst ==
    MissingRequired # {} =>
        /\ pc \in {"reconcile", "raised"}
        /\ input = original
        /\ df = original
        /\ groups = <<>> /\ applied = <<>> /\ IdleLoop
        /\ summary = <<>>
        /\ pc = "reconcile" => raised = NoneStr
        /\ pc = "raised" =>
               \/ "PlazaID" \in MissingRequired
                  /\ raised = "ValueError: Missing required column: PlazaID"
               \/ "Vehicle" \in MissingRequired
                  /\ raised = "ValueError: Missing required column: Vehicle Reg. No."
               \/ "Time" \in MissingRequired
                  /\ raised = "ValueError: Missing required column: Reader Read Time"

\* a table that has no Reader Read Time column was refused with the error
\* that names it
C12_Witness ==
    /\ pc = "raised"
    /\ MissingRequired = {"Time"}
    /\ raised = "ValueError: Missing required column: Reader Read Time"
    /\ Len(input) = 2

\* C13 (as stated): when the input table has the three required columns but
\* lacks PlazaName and/or ProjectName, reconcile does not fail.
C13_MissingMetadataTolerated ==
    (/\ MissingRequired = {}
     /\ CanParse(original)
     /\ ~({"ProjectName", "PlazaName"} \subseteq Columns(original)))
        => raised = NoneStr

\* C15 (as stated): given a table with all its columns, reconcile never raises
\* because of a null or unparseable timestamp in a row.
C15_TimestampDefectNeverRaises ==
    {"PlazaID", "Vehicle", "Time", "ProjectName", "PlazaName"} \subseteq Columns(original)
        => raised = NoneStr

\* C16: two invocations of reconcile on the same table return the same
\* reconciled table and the same daily summary (or raise the same error),
\* also when the second is made with the table object the first has run on.
C16_SecondCallSame ==
    (entry = "reconcile" /\ pc \in {"returned", "raised"} /\ results # <<>>)
        => Returned = results[Len(results)]

\* the second call returned: the first had found a timestamp given as a string
\* (07:59:59 is in no table otherwise) and both list two rows and a summary
C16_Witness ==
    /\ pc = "returned"
    /\ Len(results) = 1
    /\ Len(df) = 2
    /\ \E k \in 1..2 : df[k].Time = At(2, 7, 59, 59)
    /\ \E k \in 1..2 : df[k].Time = At(2, 8, 0, 0)
    /\ summary # <<>>
    /\ results[1].df = df
    /\ results[1].summary = summary

\* rows a and b of a table stand for the same transaction
SameTransaction(a, b) ==
    /\ a.PlazaID = b.PlazaID
    /\ a.Vehicle = b.Vehicle
    /\ a.Time = b.Time
    /\ a.ProjectName = b.ProjectName
    /\ a.PlazaName = b.PlazaName

\* C18 (as stated): of two rows of one (plaza, vehicle) partition with the same
\* timestamp, the one that comes earlier in the input gets the smaller
\* trip_count.
C18_TiesInInputOrder ==
    (pc = "returned" /\ entry = "reconcile") =>
        \A a, b \in 1..Len(input) :
            (/\ a < b
             /\ input[a].PlazaID = input[b].PlazaID
             /\ input[a].Vehicle = input[b].Vehicle
             /\ input[a].Time = input[b].Time
             /\ input[a].Time # NaT
             /\ ~SameTransaction(input[a], input[b]))
            => \A x, y \in 1..Len(df) :
                   SameTransaction(df[x], input[a]) /\ SameTransaction(df[y], input[b])
                       => df[x].TripCount < df[y].TripCount

\* C19 (as stated): after a call of reconcile the caller's input table has the
\* same columns and the same cell values as before the call.
C19_InputUntouched ==
    pc \in {"returned", "raised"} => input = original

----------------------------------------------------------------------------
\* Properties of the controllers' pipeline (checked under SpecPipeline)

\* the plazas some bank of the configuration has
KnownPlazas == UNION {DOMAIN BANK_PLAZA_MAP[b] : b \in DOMAIN BANK_PLAZA_MAP}

\* C20 (as stated, for the consolidator/controller path): a transaction whose
\* plaza ID cannot be resolved to a project is left out of the daily
\* aggregation: no summary row is for a plaza the configuration does not have,
\* and none is for a catch-all project "Unknown".
C20_UnresolvedNeverAggregated ==
    (entry \in {"consolidate", "run_pipeline"} /\ pc \in {"returned", "completed"}) =>
        \A k \in 1..Len(summary) :
            /\ summary[k].PlazaID \in KnownPlazas
            /\ summary[k].ProjectName # "Unknown"

----------------------------------------------------------------------------
\* Windows of a partition

\* the rows of a returned partition that opened a window at a known time
WindowStarts(out) == {j \in 1..Len(out) : out[j].TripCount = 1 /\ out[j].Time # NaT}

\* row k of a returned partition lies in the 24 hours that start with row j
InWindowOf(out, k, j) ==
    out[j].Time <= out[k].Time /\ out[k].Time <= out[j].Time + Day

\* C22 (checked under SpecTrip): the windows built for one (plaza, vehicle)
\* partition do not overlap: every transaction with a timestamp lies in the 24
\* hours [window_start, window_start + 24h] of exactly one window, the one
\* opened by the last window-opening row at or before it, and each later
\* window starts strictly more than 24h after the window before it started.
C22_WindowsDisjoint ==
    pc = "returned" /\ entry = "calculate_trip_count" =>
        \A r \in 1..Len(df) :
            LET out == Partition(df, df[r].PlazaID, df[r].Vehicle)
            IN  /\ \A k \in 1..Len(out) :
                       out[k].Time # NaT =>
                           /\ \E j \in WindowStarts(out) :
                                  /\ j <= k
                                  /\ \A m \in (j + 1)..k : out[m].TripCount # 1
                                  /\ InWindowOf(out, k, j)
                           /\ Cardinality({j \in WindowStarts(out) : InWindowOf(out, k, j)}) = 1
                /\ \A j1, j2 \in WindowStarts(out) :
                       j1 < j2 => out[j2].Time > out[j1].Time + Day

\* a partition with two windows: a read exactly 24h after the first one closes
\* the first window and the read one second later opens the second
C22_Witness ==
    /\ pc = "returned"
    /\ entry = "calculate_trip_count"
    /\ \E r \in 1..Len(df) :
          LET out == Partition(df, df[r].PlazaID, df[r].Vehicle)
          IN  /\ Len(out) = 3
              /\ [k \in 1..3 |-> out[k].Time]
                     = <<At(1, 10, 0, 0), At(2, 10, 0, 0), At(2, 10, 0, 1)>>
              /\ [k \in 1..3 |-> out[k].TripCount] = <<1, 2, 1>>

\* C23 (checked under Spec): in every window of every (plaza, vehicle)
\* partition the transactions with a timestamp that are NAP-qualified are
\* exactly the first and the second in time order; the third and every later
\* one is not, so no window has more than two NAP-qualified transactions.
C23_FirstTwoOfWindowNap ==
    pc = "returned" /\ entry = "reconcile" =>
        \A r \in 1..Len(df) :
            LET out == Partition(df, df[r].PlazaID, df[r].Vehicle)
                ordinal == CountsAlone([k \in 1..Len(out) |-> out[k].Time], None, 0)
                timed == {k \in 1..Len(out) : out[k].Time # NaT}
            IN  /\ Ascending(out)
                /\ \A k \in timed : out[k].IsQualifiedNAP <=> ordinal[k] <= 2
                /\ \A j \in timed :
                       ordinal[j] = 1 =>
                           Cardinality({k \in timed :
                               /\ k >= j
                               /\ \A m \in (j + 1)..k : ordinal[m] # 1
                               /\ out[k].IsQualifiedNAP}) <= 2

\* a window of three reads: the first two are NAP-qualified, the third is not
C23_Witness ==
    /\ pc = "returned"
    /\ entry = "reconcile"
    /\ Len(df) = 3
    /\ \A k \in 1..3 : df[k].Vehicle = df[1].Vehicle /\ df[k].PlazaID = df[1].PlazaID
    /\ \A k \in 1..3 : df[k].Time # NaT /\ df[k].Time <= df[1].Time + Day
    /\ [k \in 1..3 |-> df[k].IsQualifiedNAP] = <<TRUE, TRUE, FALSE>>

----------------------------------------------------------------------------
\* Degenerate tables (checked under SpecEdge)

\* C24 (as stated): reconcile on a table that has the required columns and
\* zero rows does not raise and returns an empty reconciled table and an empty
\* daily summary.
C24_EmptyTableReturnsEmpty ==
    original = <<>> =>
        /\ raised = NoneStr
        /\ pc # "raised"
        /\ pc = "returned" => df = <<>> /\ summary = <<>>

\* the number of rows of a table that are the transaction r
CountOf(tbl, r) == Cardinality({k \in 1..Len(tbl) : SameTransaction(tbl[k], r)})

\* C25 (as stated): the reconciled table that reconcile returns has exactly one
\* row for each input row, none dropped and none duplicated, also for input
\* rows whose PlazaID, Vehicle Reg. No. or timestamp is null, and the call
\* does return.
C25_RowsPreserved ==
    /\ pc # "raised"
    /\ pc = "returned" =>
           /\ Len(df) = Len(input)
           /\ \A j \in 1..Len(input) : CountOf(df, input[j]) = CountOf(input, input[j])

----------------------------------------------------------------------------
\* The three implementations (checked under SpecSources)

\* what an implementation assigned to a transaction
Assigned(r) ==
    [PlazaID |-> r.PlazaID, Vehicle |-> r.Vehicle, Time |-> r.Time,
     TripCount |-> r.TripCount, ReportDate |-> r.ReportDate,
     IsQualifiedNAP |-> r.IsQualifiedNAP]

\* the number of rows of a table with the assignment a
Assignments(tbl, a) == Cardinality({k \in 1..Len(tbl) : Assigned(tbl[k]) = a})

\* all the transactions, and all the summary rows, that a run_reconciler saved
SavedTransactions(run) ==
    Concat([n \in 1..Len(run.projects) |-> run.projects[n].transactions])
SavedSummary(run) ==
    Concat([n \in 1..Len(run.projects) |-> run.projects[n].summary])

\* C21: for the same transactions, with plazas that resolve and with
\* timestamps, reconcile and the two run_reconciler functions assign the same
\* TripCount, ReportDate and IsQualifiedNAP to every transaction and the same
\* ATP and NAP to every summary key.
C21_SameRulesEverySource ==
    pc = "file_done" =>
        \A n \in 1..2 :
            LET saved == SavedTransactions(results[n])
                rows == SavedSummary(results[n])
            IN  /\ Len(saved) = Len(df)
                /\ \A k \in 1..Len(df) :
                       Assignments(saved, Assigned(df[k])) = Assignments(df, Assigned(df[k]))
                /\ {rows[k] : k \in 1..Len(rows)} = {summary[k] : k \in 1..Len(summary)}
                /\ Len(rows) = Len(summary)

\* all three were run on reads of two projects, with a window of three reads,
\* a read at 08:00:00 and one just before it
C21_Witness ==
    /\ pc = "file_done"
    /\ Len(df) = 3
    /\ \E k \in 1..3 : df[k].TripCount = 2 /\ df[k].Time = At(2, 8, 0, 0)
    /\ \E k \in 1..3 : df[k].ProjectName = "IHPL"
    /\ Len(results[1].projects) = 2
    /\ Len(results[2].projects) = 2
    /\ Len(summary) = 3


----------------------------------------------------------------------------
\* the pipeline of the controller, its results and what it saves

\* run_pipeline has finished: it returned or an exception left it, and the
\* finally clause of the convenience function may have run
PipelineReturned == pc \in {"completed", "reconcile returned"}
PipelineRaised == pc \in {"propagated", "reconcile raised"}

\* the rows of reconciliation_runs, in the order they were committed
RunRecords == SelectSeq(db, LAMBDA r : r.table = "reconciliation_runs")

\* the record is committed
Persisted(record) == \E k \in 1..Len(db) : db[k] = record

\* C26: when run_pipeline completes successfully its results record has
\* status 'completed', total_transactions the number of reconciled rows,
\* total_nap the number of NAP-qualified rows, total_atp their difference
\* (both counts non-negative and adding up to total_transactions) and
\* summary_rows the number of rows of the daily summary.
C26_CompletedResults ==
    PipelineReturned =>
        LET r == results[1]
            nap == Cardinality({k \in 1..Len(df) : df[k].IsQualifiedNAP})
        IN  /\ r.status = "completed"
            /\ r.total_transactions = Len(df)
            /\ r.total_nap = nap
            /\ r.total_atp = r.total_transactions - r.total_nap
            /\ r.total_nap + r.total_atp = r.total_transactions
            /\ r.total_nap >= 0
            /\ r.total_atp >= 0
            /\ r.summary_rows = Len(summary)

\* a completed pipeline whose table has NAP-qualified rows and others
C26_Witness ==
    /\ pc = "completed"
    /\ entry = "controller.reconcile"
    /\ results[1].total_nap = 2
    /\ results[1].total_atp = 1

\* C27: when a step of run_pipeline raises and save_to_db is enabled, a run
\* record with status 'failed', total_transactions 0 and total_nap 0 is saved
\* and the exception that was caught is the one that reaches the caller.
C27_FailedRunRecorded ==
    (PipelineRaised /\ save_to_db) =>
        /\ \E k \in 1..Len(db) : db[k] = RunRecord(db[k].run_id, FailedRunMeta)
        /\ raised = results[1].error

\* C28: a run record with status 'completed' is persisted only together with
\* the transactions and the daily summary of its invocation, and an
\* invocation of run_pipeline that raises leaves no 'completed' run record
\* and at most one run record.
C28_CompletedRunAtomic ==
    /\ (PipelineReturned \/ PipelineRaised) =>
          \A k \in 1..Len(RunRecords) :
              RunRecords[k].status = "completed" =>
                  /\ Persisted(TransactionRecords(RunRecords[k].run_id, df))
                  /\ Persisted(SummaryRecords(RunRecords[k].run_id, summary))
    /\ PipelineRaised =>
          /\ \A k \in 1..Len(RunRecords) : RunRecords[k].status # "completed"
          /\ Len(RunRecords) <= 1

\* C29: after run_pipeline with save_to_db finished, returning or raising,
\* controller.run_id is the run_id of the run record persisted for the
\* invocation; on success results['run_id'] is that run_id too and the run
\* record, the transactions and the daily summary were saved under it, in
\* this order.
C29_RunIdCoherent ==
    /\ ((PipelineReturned \/ PipelineRaised) /\ save_to_db) =>
          \A k \in 1..Len(RunRecords) : RunRecords[k].run_id = run_id
    /\ (PipelineReturned /\ save_to_db) =>
          /\ results[1].run_id = run_id
          /\ db = <<RunRecord(run_id, RunMeta(results[1])),
                    TransactionRecords(run_id, df),
                    SummaryRecords(run_id, summary)>>

\* C30: every call of the convenience function reconcile with save_to_db
\* ends, returning or raising, with the connection of the result storage
\* closed and ResultStorage.connection None; connect never opens a second
\* connection while one is open; disconnect on a closed storage changes
\* nothing.
C30_ConnectionReleased ==
    [][/\ connections' <= 1
       /\ (pc' \in {"reconcile returned", "reconcile raised"} /\ save_to_db) =>
              (connection' = NoneStr /\ connections' = 0)
       /\ (pc \in {"completed", "propagated"} /\ connection = NoneStr) =>
              UNCHANGED <<connection, connections, db>>]_vars

\* the convenience function raised after it had saved a run record over a
\* connection, which is closed now
C30_Witness ==
    /\ pc = "reconcile raised"
    /\ save_to_db
    /\ Len(RunRecords) >= 1
    /\ connection = NoneStr

====
